---- MODULE Spec2Model ----
(***************************************************************************)
(* Event Store of ShowScraper: the SQLite table `events` (and `posts`),    *)
(* Store::upsert_event, Store::mark_posted, Store::pending_with_days,      *)
(* Store::get_event and the list_pending_buckets command, as written in    *)
(* OVERVIEW.md, together with the front end's normalizeBuckets.            *)
(*                                                                         *)
(* Spec runs the commands concurrently, one SQL statement per step, each   *)
(* command on its own connection; SpecSerial runs one command at a time    *)
(* over every venue calendar.  The queries (pending_with_days,             *)
(* list_pending_buckets, get_event) only read the table: they are          *)
(* operators over the current state.                                       *)
(*                                                                         *)
(* The pipeline in front of the store is modelled as well: normalize_event *)
(* with parse_local and parse_price (SpecNormalize, SpecParseLocal and     *)
(* SpecParsePrice call it on RawEvents of the kinds the scrapers build),   *)
(* the command run_scrape_and_post with run_all (SpecRun, and LiveSpecRun  *)
(* with the fairness of the async runtime), and preview_post with          *)
(* LLMComposer::compose and llm::fallback (SpecPreview).                   *)
(*                                                                         *)
(* Time is counted in ticks, TicksPerDay ticks to a UTC day.  A timestamp  *)
(* text is the triple <<day, separator, tick of day>>: chrono's            *)
(* to_rfc3339() writes "YYYY-MM-DDTHH:MM:SS+00:00" (separator 'T') and     *)
(* SQLite's datetime('now') writes "YYYY-MM-DD HH:MM:SS" (separator ' ').  *)
(* SQLite compares two TEXT values byte by byte, so texts are compared     *)
(* lexicographically on these triples.                                     *)
(***************************************************************************)
EXTENDS Integers, Sequences, FiniteSets, TLC

\* ---------------------------------------------------------------- bounds
NumIds == 2
TicksPerDay == 2
MaxCalls == 3
MaxLen == 5

\* The clock runs from day 0 at 00:00 to day 1 at 00:00.
MaxClock == TicksPerDay

Ids == 1..NumIds
\* Two store connections (Store::open_default is called per command).
Conns == {"a", "b"}

\* Start instants (in ticks) a show may have, in calendar order: day 0 at
\* 00:00, day 1 at the last tick of the day, then days 4, 10, 20, 40 and 70
\* at 00:00, so that every bucket of list_pending_buckets gets populated.
StartSeq ==
  <<0, 2 * TicksPerDay - 1, 4 * TicksPerDay, 10 * TicksPerDay,
    20 * TicksPerDay, 40 * TicksPerDay, 70 * TicksPerDay>>

\* The venue calendars that are scraped: NumIds consecutive shows of the
\* calendar, the show with id i starting at the i-th of them.
Listings ==
  {[i \in Ids |-> StartSeq[k + i]] : k \in 0..(Len(StartSeq) - NumIds)}

\* ---------------------------------------------------------- text formats
CharT == 84
CharSpace == 32

\* DateTime<Utc>::to_rfc3339(): "YYYY-MM-DDTHH:MM:SS+00:00".
ToRfc3339(t) == <<t \div TicksPerDay, CharT, t % TicksPerDay>>

\* SQLite datetime('now'): "YYYY-MM-DD HH:MM:SS".
SqlDatetime(t) == <<t \div TicksPerDay, CharSpace, t % TicksPerDay>>

\* SQLite julianday(text): parses either form to the instant (here in ticks).
Julianday(s) == s[1] * TicksPerDay + s[3]

\* SQLite BINARY collation on TEXT: memcmp, i.e. lexicographic order.
TextLess(a, b) ==
  \/ a[1] < b[1]
  \/ a[1] = b[1] /\ a[2] < b[2]
  \/ a[1] = b[1] /\ a[2] = b[2] /\ a[3] < b[3]

TextGE(a, b) == ~TextLess(a, b)

\* SQLite ROUND(x) for x = num/den: to the nearest integer, halves away
\* from zero.
SqlRound(num, den) ==
  IF num >= 0 THEN (2 * num + den) \div (2 * den)
  ELSE -((2 * (-num) + den) \div (2 * den))

\* ------------------------------------------------------------------ state
VARIABLES
  clock,      \* the wall clock, in ticks
  listing,    \* listing[i]: start instant of the real-world show with id i
  events,     \* table events: rows id, payload, first/last_seen, posted_at
  posts,      \* table posts: rows post_id, event_id
  pc,         \* per connection: position in normalize -> upsert_event
  ev,         \* per connection: the Event being upserted
  exists,     \* per connection: result of upsert_event's SELECT 1
  result,     \* per connection: outcome of the last upsert_event call
  notFound,   \* ids the last mark-posted batch reported as not found
  markedIds,  \* history: ids whose events row a mark_posted call updated
  calls,      \* number of store commands issued so far
  raw,        \* normalize_event: the RawEvent of the latest call
  out,        \* normalize_event: the Result of the latest call
  prev,       \* normalize_event: RawEvent and Result of the call before it
  fetch,      \* run_all: per scraper, the state of its fetch_events future
  responsive, \* per scraper: whether the venue's server ever answers
  runPc,      \* run_scrape_and_post: position of the command
  raws,       \* run_scrape_and_post: the Vec<RawEvent> run_all returned
  pos,        \* run_scrape_and_post: number of raws the loop has consumed
  runOut,     \* run_scrape_and_post: the Result of the latest call
  draft,      \* preview_post: the Result of the latest call
  data,       \* PendingPosts: the buckets usePendingBuckets holds
  loading,    \* PendingPosts: usePendingBuckets' loading flag
  selected,   \* PendingPosts: the Record<string, boolean> of checkboxes
  busy,       \* PendingPosts: the busy flag
  toast,      \* PendingPosts: the toast on display
  refreshes,  \* PendingPosts: the list_pending_buckets calls in flight
  markPc,     \* PendingPosts: position of handleMarkPosted
  markIds,    \* PendingPosts: the ids handleMarkPosted was started with
  markSlot,   \* PendingPosts: the refresh handleMarkPosted awaits
  pruneDue,   \* PendingPosts: the pruning effect is scheduled
  settings,   \* useSettings: the in-memory AppSettings
  loaded,     \* useSettings: the loaded flag
  dirty,      \* useSettings: the dirty flag
  savedAt,    \* useSettings: the time of the last save, if any
  storage,    \* localStorage: the item under STORAGE_KEY, if any
  warned,     \* the messages console.warn has been called with
  mounted,    \* Settings: the page is mounted
  modelOptions,     \* Settings: the model ids on offer
  modelsBusy,       \* Settings: the busy flag of the model list
  modelsError,      \* Settings: the error shown under the model list
  modelsRefreshKey, \* Settings: bumped by Reload
  current,    \* Settings: the fetch of the latest run of the model effect
  stale,      \* Settings: endpoints of superseded fetches still in flight
  venues,        \* Venues: the ids of the venues listed
  venuesLoading, \* Venues: the loading flag
  bulkBusy,      \* Venues: the bulkBusy flag
  states,        \* Venues: the Record<string, VenueState>
  venuesToast,   \* Venues: the toast on display
  loadPending,   \* Venues: a list_venues call is in flight
  scrapeCalls,   \* Venues: the venues with a scrape_venue call in flight
  bulkPending    \* Venues: a scrape_all call is in flight

\* The variables of the normalizer, of the ingestion run and of the composer.
normVars == <<raw, out, prev>>

runVars == <<fetch, responsive, runPc, raws, pos, runOut>>

composeVars == <<draft>>

\* The variables of the Pending Posts view.
pendingVars == <<data, loading, selected, busy, toast, refreshes, markPc,
                 markIds, markSlot, pruneDue>>

\* The variables of useSettings and of the Settings page's model list.
settingsVars == <<settings, loaded, dirty, savedAt, storage, warned>>

modelVars == <<mounted, modelOptions, modelsBusy, modelsError,
               modelsRefreshKey, current, stale>>

\* The variables of the Venues page.
venueVars == <<venues, venuesLoading, bulkBusy, states, venuesToast,
               loadPending, scrapeCalls, bulkPending>>

pipeVars == <<normVars, runVars, composeVars, pendingVars, settingsVars,
              modelVars, venueVars>>

storeVars == <<clock, listing, events, posts, pc, ev, exists, result,
               notFound, markedIds, calls>>

vars == <<clock, listing, events, posts, pc, ev, exists, result, notFound,
          markedIds, calls, pipeVars>>

\* The scrapers run_all holds: PineBoxScraper and FoxTheaterICSScraper.
Scrapers == {"pine_box", "fox_theater"}

\* Which venue servers answer at all: every one, or all but one.
ResponsiveSets == {Scrapers} \cup {Scrapers \ {s} : s \in Scrapers}

\* The list_pending_buckets calls the view can have in flight at once, and
\* the entry of a slot that holds none.
Slots == {1, 2}

\* DEFAULT_LLM_ENDPOINT and DEFAULT_SETTINGS (hooks/useSettings.ts); the
\* fields autoOpenPreview and dataDirectory are left out.
DEFAULT_LLM_ENDPOINT == "http://127.0.0.1:1234/v1"

DEFAULT_SETTINGS ==
  [llmModel |-> "gpt-4o-mini", llmEndpoint |-> DEFAULT_LLM_ENDPOINT,
   notifyOnPost |-> TRUE]

\* The setting values that are entered.
SettingValues ==
  [llmModel |-> {"gpt-4o-mini", "llama"},
   llmEndpoint |-> {DEFAULT_LLM_ENDPOINT, "http://other/v1", " "},
   notifyOnPost |-> BOOLEAN]

\* JSON.stringify of an AppSettings object: the text of an object, as the
\* list of its members in the order of the keys, a boolean written as true
\* or false.
JsonStringify(s) ==
  LET keys == <<"llmModel", "llmEndpoint", "notifyOnPost">>
      text(k) == IF k = "notifyOnPost"
                   THEN (IF s[k] THEN "true" ELSE "false") ELSE s[k]
  IN [wellFormed |-> TRUE,
      members |-> [i \in DOMAIN keys |-> <<keys[i], text(keys[i])>>]]

FreeCall == [phase |-> "free", response |-> [k \in {} |-> <<>>]]

NoEvent == [id |-> 0, start_utc |-> <<>>, ticket_url |-> "none",
            scraped_at_utc |-> <<>>]

Init ==
  /\ clock = 0
  /\ listing \in Listings
  /\ events = {}
  /\ posts = {}
  /\ pc = [c \in Conns |-> "idle"]
  /\ ev = [c \in Conns |-> NoEvent]
  /\ exists = [c \in Conns |-> FALSE]
  /\ result = [c \in Conns |-> "none"]
  /\ notFound = {}
  /\ markedIds = {}
  /\ calls = 0
  /\ raw = {}
  /\ out = {}
  /\ prev = {}
  /\ fetch = [s \in Scrapers |-> [st |-> "idle", items |-> <<>>]]
  /\ responsive \in ResponsiveSets
  /\ runPc = "idle"
  /\ raws = <<>>
  /\ pos = 0
  /\ runOut = {}
  /\ draft = {}
  /\ data = [k \in {"DAY_OF", "LT_1W", "LT_2W", "LT_1M", "LT_2M", "GTE_2M"}
              |-> <<>>]
  /\ loading = FALSE
  /\ selected = <<>>
  /\ busy = FALSE
  /\ toast = "none"
  /\ refreshes = [s \in Slots |-> FreeCall]
  /\ markPc = "idle"
  /\ markIds = {}
  /\ markSlot = 0
  /\ pruneDue = FALSE
  /\ settings = DEFAULT_SETTINGS
  /\ loaded = FALSE
  /\ dirty = FALSE
  /\ savedAt = {}
  \* localStorage holds no item, an object written by an earlier version
  \* (it lacks keys), or text that is not JSON
  /\ storage \in
       {{},
        {[wellFormed |-> TRUE, members |-> <<<<"llmModel", "llama">>>>]},
        {[wellFormed |-> FALSE, members |-> <<>>]}}
  /\ warned = {}
  /\ mounted = TRUE
  /\ modelOptions = <<>>
  /\ modelsBusy = FALSE
  /\ modelsError = "none"
  /\ modelsRefreshKey = 0
  /\ current = [phase |-> "none", endpoint |-> DEFAULT_LLM_ENDPOINT]
  /\ stale = {}
  /\ venues = {}
  /\ venuesLoading = FALSE
  /\ bulkBusy = FALSE
  /\ states = <<>>
  /\ venuesToast = "none"
  /\ loadPending = FALSE
  /\ scrapeCalls = {}
  /\ bulkPending = FALSE

\* Rows of table events with the given primary key.
RowsOf(id) == {r \in events : r.id = id}

\* The wall clock advances.
Tick ==
  /\ clock < MaxClock
  /\ clock' = clock + 1
  /\ UNCHANGED <<listing, events, posts, pc, ev, exists, result, notFound,
                 markedIds, calls>>
  /\ UNCHANGED pipeVars

\* normalize_event: builds the Event of one scraped show; scraped_at_utc is
\* Utc::now() at normalization time, start_utc is dt_utc.to_rfc3339().
\* (The venue pages carry no ticket link at tick 0 and carry one afterwards.)
NormalizeEvent(id) ==
  [id |-> id, start_utc |-> ToRfc3339(listing[id]),
   ticket_url |-> IF clock = 0 THEN "none" ELSE "tix",
   scraped_at_utc |-> ToRfc3339(clock)]

\* run_scrape_and_post loop body, first half: `let ev = normalize_event(raw)?`.
Normalize(c) ==
  /\ pc[c] = "idle"
  /\ calls < MaxCalls
  /\ calls' = calls + 1
  /\ \E id \in Ids : ev' = [ev EXCEPT ![c] = NormalizeEvent(id)]
  /\ pc' = [pc EXCEPT ![c] = "select"]
  /\ result' = [result EXCEPT ![c] = "none"]
  /\ UNCHANGED <<clock, listing, events, posts, exists, notFound, markedIds>>
  /\ UNCHANGED pipeVars

\* upsert_event, first statement: SELECT 1 FROM events WHERE id=?1.
UpsertSelect(c) ==
  /\ pc[c] = "select"
  /\ exists' = [exists EXCEPT ![c] = (RowsOf(ev[c].id) # {})]
  /\ pc' = [pc EXCEPT ![c] = "write"]
  /\ UNCHANGED <<clock, listing, events, posts, ev, result, notFound,
                 markedIds, calls>>
  /\ UNCHANGED pipeVars

\* Variant of the UPDATE that rewrites the whole row, as INSERT OR REPLACE
\* would: posted_at_utc goes back to NULL.
SqlUpdateSeen_ClearsPosted(tbl, e) ==
  {IF r.id = e.id
     THEN [r EXCEPT !.payload = e, !.last_seen_utc = e.scraped_at_utc,
                    !.posted_at_utc = {}]
     ELSE r : r \in tbl}

\* UPDATE events SET payload=?1, last_seen_utc=?2 WHERE id=?3, with
\* ?2 = ev.scraped_at_utc.
SqlUpdateSeen(tbl, e) ==
  {IF r.id = e.id
     THEN [r EXCEPT !.payload = e, !.last_seen_utc = e.scraped_at_utc]
     ELSE r : r \in tbl}

\* INSERT INTO events(...) VALUES(?1,?2,?3,?3,NULL); the row that is added.
NewRow(e) ==
  [id |-> e.id, payload |-> e, first_seen_utc |-> e.scraped_at_utc,
   last_seen_utc |-> e.scraped_at_utc, posted_at_utc |-> {}]

\* upsert_event, second statement: UPDATE when the SELECT found a row,
\* INSERT otherwise.  The INSERT fails on the PRIMARY KEY constraint when a
\* row with this id has appeared since the SELECT; `?` returns the error.
UpsertWrite(c) ==
  /\ pc[c] = "write"
  /\ IF exists[c]
       THEN /\ events' = SqlUpdateSeen(events, ev[c])
            /\ result' = [result EXCEPT ![c] = "ok"]
       ELSE IF RowsOf(ev[c].id) = {}
         THEN /\ events' = events \cup {NewRow(ev[c])}
              /\ result' = [result EXCEPT ![c] = "ok"]
         ELSE /\ events' = events
              /\ result' = [result EXCEPT ![c] = "err"]
  /\ pc' = [pc EXCEPT ![c] = "idle"]
  /\ ev' = [ev EXCEPT ![c] = NoEvent]
  /\ exists' = [exists EXCEPT ![c] = FALSE]
  /\ UNCHANGED <<clock, listing, posts, notFound, markedIds, calls>>
  /\ UNCHANGED pipeVars

\* ------------------------------------------------------------ mark posted
\* Store::mark_posted(event_id, _): UPDATE events SET posted_at_utc =
\* datetime('now') WHERE id=?1, then INSERT OR REPLACE INTO posts(post_id,
\* event_id, ...) VALUES(?1,?1,...) (the other columns of posts are left out).
\* Neither statement fails for an id without an events row, and the number
\* of rows the UPDATE changed is not looked at: the call returns Ok(()).
MarkPosted(st, id, now) ==
  [events |->
     {IF r.id = id THEN [r EXCEPT !.posted_at_utc = {SqlDatetime(now)}]
                   ELSE r : r \in st.events},
   posts |->
     {p \in st.posts : p.post_id # id} \cup
       {[post_id |-> id, event_id |-> id]},
   failed |-> st.failed,
   changed |-> st.changed \cup {r.id : r \in {x \in st.events : x.id = id}}]

\* The batch command behind invoke("mark_events_posted", {eventIds}): one
\* Store::mark_posted call per id; an id whose call fails is collected and
\* reported, the others are still processed.  (mark_posted returns Ok for
\* every id, so nothing is ever collected.)
RECURSIVE MarkBatch(_, _, _)
MarkBatch(st, ids, now) ==
  IF ids = {} THEN st
  ELSE LET id == CHOOSE i \in ids : TRUE
       IN MarkBatch(MarkPosted(st, id, now), ids \ {id}, now)

MarkEventsPosted(ids) ==
  /\ calls < MaxCalls
  /\ calls' = calls + 1
  /\ LET st == MarkBatch([events |-> events, posts |-> posts, failed |-> {},
                          changed |-> {}], ids, clock)
     IN /\ events' = st.events
        /\ posts' = st.posts
        /\ notFound' = st.failed
        /\ markedIds' = markedIds \cup st.changed
  /\ UNCHANGED <<clock, listing, pc, ev, exists, result>>
  /\ UNCHANGED pipeVars

\* Store::get_event: SELECT payload FROM events WHERE id=?1; the payload of
\* the row, or the error QueryReturnedNoRows.
GetEvent(id) ==
  IF RowsOf(id) = {} THEN "QueryReturnedNoRows"
  ELSE (CHOOSE r \in RowsOf(id) : TRUE).payload

\* ---------------------------------------------------------- pending query
BucketKeys == <<"DAY_OF", "LT_1W", "LT_2W", "LT_1M", "LT_2M", "GTE_2M">>

BucketKeySet == {BucketKeys[i] : i \in DOMAIN BucketKeys}

\* Variant of the WHERE clause without the start_utc condition.
PendingWhere_NoStartFilter(r, now) == r.posted_at_utc = {}

\* Variant of the WHERE clause without `posted_at_utc IS NULL`.
PendingWhere_IgnoresPosted(r, now) ==
  TextGE(r.payload.start_utc, SqlDatetime(now))

\* WHERE posted_at_utc IS NULL
\*   AND json_extract(payload,'$.start_utc') >= datetime('now')
\* (a comparison of two TEXT values).
PendingWhere(r, now) ==
  /\ r.posted_at_utc = {}
  /\ TextGE(r.payload.start_utc, SqlDatetime(now))

\* CAST(ROUND(julianday(start_utc) - julianday('now')) AS INTEGER).
DaysUntil(r, now) ==
  SqlRound(Julianday(r.payload.start_utc) - Julianday(SqlDatetime(now)),
           TicksPerDay)

\* Variant that orders by start_utc descending.
RECURSIVE OrderByStartUtc_Desc(_)
OrderByStartUtc_Desc(rows) ==
  IF rows = {} THEN <<>>
  ELSE LET r == CHOOSE x \in rows :
                  \A y \in rows :
                    ~TextLess(x.payload.start_utc, y.payload.start_utc)
       IN <<r>> \o OrderByStartUtc_Desc(rows \ {r})

\* ORDER BY json_extract(payload,'$.start_utc') ASC (TEXT order).
RECURSIVE OrderByStartUtc(_)
OrderByStartUtc(rows) ==
  IF rows = {} THEN <<>>
  ELSE LET r == CHOOSE x \in rows :
                  \A y \in rows :
                    ~TextLess(y.payload.start_utc, x.payload.start_utc)
       IN <<r>> \o OrderByStartUtc(rows \ {r})

\* Store::pending_with_days: the selected rows, in order, as PendingRow.
PendingWithDays(tbl, now) ==
  LET sel == OrderByStartUtc({r \in tbl : PendingWhere(r, now)})
  IN [i \in DOMAIN sel |->
        [event |-> sel[i].payload, days_until |-> DaysUntil(sel[i], now)]]

\* fn bucket(d: i32) of list_pending_buckets.
Bucket(d) ==
  IF d <= 0 THEN "DAY_OF"
  ELSE IF d < 7 THEN "LT_1W"
  ELSE IF d < 14 THEN "LT_2W"
  ELSE IF d < 30 THEN "LT_1M"
  ELSE IF d < 60 THEN "LT_2M"
  ELSE "GTE_2M"

\* list_pending_buckets: a BTreeMap that gets a key when the first row of
\* that bucket is pushed; rows are pushed in query order.
ListPendingBuckets(tbl, now) ==
  LET rows == PendingWithDays(tbl, now)
  IN [k \in {Bucket(rows[i].days_until) : i \in DOMAIN rows} |->
        SelectSeq(rows, LAMBDA r : Bucket(r.days_until) = k)]

\* createEmptyBuckets (lib/types.ts).
CreateEmptyBuckets == [k \in BucketKeySet |-> <<>>]

\* normalizeBuckets (lib/types.ts): the known keys of the response are
\* copied over an all-empty mapping.
NormalizeBuckets(input) ==
  [k \in BucketKeySet |->
     IF k \in DOMAIN input THEN input[k] ELSE CreateEmptyBuckets[k]]

\* The response of list_pending_buckets in the current state.
Response == ListPendingBuckets(events, clock)

\* Ids of the events listed in a bucket mapping.
ListedIds(b) ==
  UNION {{b[k][i].event.id : i \in DOMAIN b[k]} : k \in DOMAIN b}

\* ------------------------------------------------------- specifications
\* Commands running concurrently, each on its own connection, over one
\* venue calendar.
InitStore ==
  /\ Init
  /\ listing = [i \in Ids |-> StartSeq[i]]
  /\ responsive = Scrapers
  /\ storage = {}

Next ==
  \/ Tick
  \/ \E c \in Conns : Normalize(c)
  \/ \E c \in Conns : UpsertSelect(c)
  \/ \E c \in Conns : UpsertWrite(c)
  \/ \E ids \in SUBSET Ids \ {{}} : MarkEventsPosted(ids)

Spec == InitStore /\ [][Next]_vars

\* One command at a time (the loop of run_scrape_and_post on a single
\* connection: normalize_event, then upsert_event, without interleaving),
\* over every venue calendar.
UpsertEvent(id) ==
  /\ \A c \in Conns : pc[c] = "idle"
  /\ calls < MaxCalls
  /\ calls' = calls + 1
  /\ LET e == NormalizeEvent(id)
     IN events' = IF RowsOf(id) # {} THEN SqlUpdateSeen(events, e)
                  ELSE events \cup {NewRow(e)}
  /\ UNCHANGED <<clock, listing, posts, pc, ev, exists, result, notFound,
                 markedIds>>
  /\ UNCHANGED pipeVars

NextSerial ==
  \/ Tick
  \/ \E id \in Ids : UpsertEvent(id)
  \/ \E ids \in SUBSET Ids \ {{}} : MarkEventsPosted(ids)

InitSerial == Init /\ responsive = Scrapers /\ storage = {}

SpecSerial == InitSerial /\ [][NextSerial]_vars

\* ============================================================= normalizer
\* Text is a sequence of one-character strings.  An Option is a set: {} is
\* None, {v} is Some(v).

\* str::to_lowercase on the letters that occur in artist names.
LowerChar(c) ==
  IF c = "A" THEN "a" ELSE IF c = "B" THEN "b" ELSE IF c = "T" THEN "t" ELSE c

to_lowercase(txt) == [i \in DOMAIN txt |-> LowerChar(txt[i])]

\* The time zones chrono_tz knows here.  Local time is UTC plus the offset
\* (in ticks).  America/Los_Angeles is on standard time (-2) before the
\* instant SpringAt, on daylight time (-1) from SpringAt up to FallAt, and on
\* standard time again from FallAt on; UTC has offset 0 throughout.
SpringAt == 4
FallAt == 8

KnownZones == {"America/Los_Angeles", "UTC"}

ZoneOffset(zone, u) ==
  IF zone = "UTC" THEN 0
  ELSE IF u >= SpringAt /\ u < FallAt THEN -1 ELSE -2

\* chrono_tz::Tz::from_str(tz).unwrap_or(chrono_tz::America::Los_Angeles).
TzFromStrOrDefault(tz) ==
  IF tz \in KnownZones THEN tz ELSE "America/Los_Angeles"

\* TimeZone::from_local_datetime(&naive): the LocalResult, as the set of
\* instants whose local time in the zone is `naive` (none in the gap of the
\* spring transition, two in the fold of the autumn transition).
FromLocalDatetime(zone, naive) ==
  {u \in naive..(naive + 2) : u + ZoneOffset(zone, u) = naive}

\* LocalResult::earliest(): None for LocalResult::None, the single instant
\* for Single, the earlier of the two for Ambiguous.
Earliest(res) ==
  IF res = {} THEN {} ELSE {CHOOSE u \in res : \A v \in res : u <= v}

\* Variant of parse_local that resolves every start text, RFC 3339 ones
\* included, in the zone named by the record.
parse_local_ZoneWins(s, tz) ==
  IF s.form = "text"
    THEN [ok |-> FALSE, instant |-> 0, offset |-> 0]
    ELSE LET zone == TzFromStrOrDefault(tz)
             local == Earliest(FromLocalDatetime(zone, s.local))
         IN IF local = {}
              THEN [ok |-> FALSE, instant |-> 0, offset |-> 0]
              ELSE LET u == CHOOSE x \in local : TRUE
                   IN [ok |-> TRUE, instant |-> u,
                       offset |-> ZoneOffset(zone, u)]

\* parse_local(s, tz).  A start text is [form, local, offset]: form
\* "rfc3339" is "YYYY-MM-DDTHH:MM:SS+hh:mm" (local time and its offset),
\* form "naive" is "YYYY-MM-DD HH:MM" (local time only), form "text" is
\* anything neither DateTime::parse_from_rfc3339 nor
\* NaiveDateTime::parse_from_str(s, "%Y-%m-%d %H:%M") accepts.  The result
\* is a DateTime<FixedOffset>, i.e. an instant with its offset, or an error.
parse_local(s, tz) ==
  IF s.form = "rfc3339"
    THEN [ok |-> TRUE, instant |-> s.local - s.offset, offset |-> s.offset]
  ELSE IF s.form = "text"
    THEN [ok |-> FALSE, instant |-> 0, offset |-> 0]
  ELSE LET zone == TzFromStrOrDefault(tz)
           local == Earliest(FromLocalDatetime(zone, s.local))
       IN IF local = {}
            THEN [ok |-> FALSE, instant |-> 0, offset |-> 0]
            ELSE LET u == CHOOSE x \in local : TRUE
                 IN [ok |-> TRUE, instant |-> u,
                     offset |-> ZoneOffset(zone, u)]

\* DateTime<FixedOffset>::to_rfc3339(): the local date and time followed by
\* the offset.
ToRfc3339Local(instant, offset) ==
  <<(instant + offset) \div TicksPerDay, CharT,
    (instant + offset) % TicksPerDay, offset>>

\* ---------------------------------------------------------- price parsing
Digits == <<"0", "1", "2", "3", "4", "5", "6", "7", "8", "9">>

IsDigit(c) == \E d \in DOMAIN Digits : Digits[d] = c

DigitVal(c) == (CHOOSE d \in DOMAIN Digits : Digits[d] = c) - 1

\* The character class [-/–] of the price pattern.
Separators == {"-", "/", "en-dash"}

CharAt(txt, i) == IF i \in DOMAIN txt THEN txt[i] ELSE "end"

\* \d{1,3} at position i, greedy: the number of digits it takes (0: no match).
DigitRun(txt, i) ==
  CHOOSE n \in 0..3 :
    /\ \A j \in i..(i + n - 1) : IsDigit(CharAt(txt, j))
    /\ n = 3 \/ ~IsDigit(CharAt(txt, i + n))

\* str::parse::<i64>() of the n digits at position i.
RECURSIVE ParseInt(_, _, _)
ParseInt(txt, i, n) ==
  IF n = 0 THEN 0
  ELSE ParseInt(txt, i, n - 1) * 10 + DigitVal(txt[i + n - 1])

\* \s* at position i: the position after the white space.
RECURSIVE SkipSpaces(_, _)
SkipSpaces(txt, i) ==
  IF CharAt(txt, i) = " " THEN SkipSpaces(txt, i + 1) ELSE i

\* Regex::captures(txt) for \$?(\d{1,3})(?:\s*[-/–]\s*\$?(\d{1,3}))? : the
\* leftmost match starts at the first digit of the text (or at a "$" right
\* before it); group 1 is the digit run there, group 2 is the digit run
\* after a separator when one follows, and is unset otherwise.
Captures(txt) ==
  IF \A i \in DOMAIN txt : ~IsDigit(txt[i])
    THEN [matched |-> FALSE, g1 |-> {}, g2 |-> {}]
    ELSE LET p == CHOOSE i \in DOMAIN txt :
                    IsDigit(txt[i]) /\ \A j \in 1..(i - 1) : ~IsDigit(txt[j])
             n1 == DigitRun(txt, p)
             s1 == SkipSpaces(txt, p + n1)
             s2 == SkipSpaces(txt, s1 + 1)
             q == IF CharAt(txt, s2) = "$" THEN s2 + 1 ELSE s2
             n2 == DigitRun(txt, q)
         IN [matched |-> TRUE,
             g1 |-> {ParseInt(txt, p, n1)},
             g2 |-> IF CharAt(txt, s1) \in Separators /\ n2 > 0
                      THEN {ParseInt(txt, q, n2)} ELSE {}]

\* parse_price(s): (a.map(|v| v*100), b.map(|v| v*100)) of the two capture
\* groups, (None, None) without text or without a match.
parse_price(s) ==
  IF s = {} THEN [min |-> {}, max |-> {}]
  ELSE LET c == Captures(CHOOSE txt \in s : TRUE)
       IN IF c.matched
            THEN [min |-> {v * 100 : v \in c.g1},
                  max |-> {v * 100 : v \in c.g2}]
            ELSE [min |-> {}, max |-> {}]

parse_price_min(s) == parse_price(s).min

parse_price_max(s) == parse_price(s).max

\* ------------------------------------------------------- normalize_event
\* The first 16 hex digits of the SHA-256 digest of the key.  The digest is
\* taken to be collision free: it is represented by the key it was computed
\* from.
Sha256Hex16(key) == <<"sha256">> \o key

\* format!("{}|{}|{}", venue_id, dt_utc.to_rfc3339(), main_artist.to_lowercase()).
IdentityKey(venue_id, start_utc, main_artist) ==
  <<venue_id, "|", start_utc, "|", to_lowercase(main_artist)>>

\* raw.artists.get(0).cloned().unwrap_or_else(|| "TBA".into()).
MainArtist(artists) ==
  IF Len(artists) > 0 THEN artists[1] ELSE <<"T", "B", "A">>

NoEventOut ==
  [id |-> <<>>, source |-> "", venue_id |-> "", venue_name |-> {},
   venue_url |-> {}, start_local |-> {}, start_utc |-> <<>>,
   doors_local |-> {}, artists |-> <<>>, is_all_ages |-> {},
   ticket_url |-> {}, event_url |-> {}, price_min_cents |-> {},
   price_max_cents |-> {}, currency |-> {}, tags |-> <<>>,
   scraped_at_utc |-> <<>>, extra |-> {}]

\* normalize_event(raw) called at instant `now`: Err when parse_local fails,
\* Ok(Event) otherwise.
normalize_event(r, now) ==
  LET dt_local == parse_local(r.start, r.timezone)
      dt_utc == ToRfc3339(dt_local.instant)
      main_artist == MainArtist(r.artists)
      key == IdentityKey(r.venue_id, dt_utc, main_artist)
  IN IF ~dt_local.ok THEN [ok |-> FALSE, event |-> NoEventOut]
     ELSE [ok |-> TRUE,
           event |->
             [id |-> Sha256Hex16(key),
              source |-> r.source,
              venue_id |-> r.venue_id,
              venue_name |-> {r.venue_name},
              venue_url |-> {},
              start_local |->
                {ToRfc3339Local(dt_local.instant, dt_local.offset)},
              start_utc |-> dt_utc,
              doors_local |-> {},
              artists |-> r.artists,
              is_all_ages |-> {},
              ticket_url |-> r.ticket_url,
              event_url |-> r.event_url,
              price_min_cents |-> parse_price_min(r.price_text),
              price_max_cents |-> parse_price_max(r.price_text),
              currency |-> {"USD"},
              tags |-> <<>>,
              scraped_at_utc |-> ToRfc3339(now),
              extra |-> r.extra]]

\* ------------------------------------------------- calls of the normalizer
\* venue_name as the scrapers fill it in.
VenueName(venue) == IF venue = "pine_box" THEN "Pine Box" ELSE "Fox Theater"

\* The RawEvent a scraper builds from what it found on the venue's page.
RawEvent(venue, start, tz, artists, price, ticket, extra) ==
  [source |-> venue, venue_id |-> venue, venue_name |-> VenueName(venue),
   event_url |-> {"more" : t \in ticket}, ticket_url |-> ticket,
   start |-> start, timezone |-> tz, artists |-> artists,
   price_text |-> price, extra |-> extra]

Rfc3339Text(local, offset) ==
  [form |-> "rfc3339", local |-> local, offset |-> offset]

NaiveText(local) == [form |-> "naive", local |-> local, offset |-> 0]

FreeText == [form |-> "text", local |-> 0, offset |-> 0]

\* Artist lists found on venue pages: none, one name in several spellings,
\* a headliner with a support act.
ArtistLists ==
  {<<>>,
   <<(<<"A", "b">>)>>, <<(<<"A", "B">>)>>, <<(<<"A", "b", " ">>)>>,
   <<(<<"A", "b">>), (<<"b">>)>>}

\* RawEvents for the identity key: two venues; start texts of which two
\* denote the same instant; every artist list; without or with price text,
\* extra and the two links.
RawEvents ==
  {RawEvent(v, s, "America/Los_Angeles", a, p[1], p[3], p[2]) :
     v \in Scrapers,
     s \in {Rfc3339Text(5, -1), Rfc3339Text(6, 0), Rfc3339Text(7, 0)},
     a \in ArtistLists,
     p \in {<<{}, {}, {}>>, <<{<<"$", "1">>}, {"doors"}, {"tix"}>>}}

\* RawEvents for the start time: every start text up to MaxLocal, in a zone
\* with transitions, in a zone without, and under an unknown zone name.
MaxLocal == 9

StartTexts ==
  {Rfc3339Text(l, o) : l \in 2..MaxLocal, o \in -2..1}
    \cup {NaiveText(l) : l \in 0..MaxLocal} \cup {FreeText}

ZoneNames == {"America/Los_Angeles", "UTC", "Mars/Olympus_Mons"}

TimedRawEvents ==
  {RawEvent("pine_box", s, tz, <<(<<"A", "b">>)>>, {}, {}, {}) :
     s \in StartTexts, tz \in ZoneNames}

\* RawEvents for the price: no price text, or any text up to MaxLen
\* characters over PriceChars.
PriceChars == {"$", "1", "5", "-", " ", "x"}

PriceTexts == UNION {[1..n -> PriceChars] : n \in 0..MaxLen}

PricedRawEvents ==
  {RawEvent("pine_box", Rfc3339Text(6, 0), "America/Los_Angeles",
            <<(<<"A", "b">>)>>, p, {}, {}) :
     p \in {{}} \cup {{txt} : txt \in PriceTexts}}

\* One call normalize_event(r); the call before it is remembered.
NormalizeCall(r) ==
  /\ raw' = {r}
  /\ out' = {normalize_event(r, clock)}
  /\ prev' = {[raw |-> x, out |-> y] : x \in raw, y \in out}
  /\ UNCHANGED <<storeVars, runVars, composeVars>>
  /\ UNCHANGED <<pendingVars, settingsVars, modelVars, venueVars>>

\* The first call only.
NormalizeOnce(r) == raw = {} /\ NormalizeCall(r)

NextNormalize ==
  \/ Tick
  \/ \E r \in RawEvents : NormalizeCall(r)

SpecNormalize == InitStore /\ [][NextNormalize]_vars

NextParseLocal == \E r \in TimedRawEvents : NormalizeCall(r)

SpecParseLocal == InitStore /\ [][NextParseLocal]_vars

NextParsePrice == \E r \in PricedRawEvents : NormalizeOnce(r)

SpecParsePrice == InitStore /\ [][NextParsePrice]_vars

\* ========================================================== ingestion run
\* Store::upsert_event on one connection with nothing running in between:
\* the table after the call.
upsert_event(tbl, e) ==
  IF \E r \in tbl : r.id = e.id THEN SqlUpdateSeen(tbl, e)
  ELSE tbl \cup {NewRow(e)}

\* What a scraper's fetch_events can return as Ok(items): the venue lists no
\* show, one show, a show whose date-time text cannot be parsed, or both in
\* either order.
GoodRaw(s) ==
  RawEvent(s, Rfc3339Text(6, 0), "America/Los_Angeles", <<(<<"A", "b">>)>>,
           {}, {"tix"}, {})

BadRaw(s) ==
  RawEvent(s, FreeText, "America/Los_Angeles", <<(<<"b">>)>>, {}, {}, {})

Feeds(s) ==
  {<<>>, <<GoodRaw(s)>>, <<BadRaw(s)>>, <<GoodRaw(s), BadRaw(s)>>,
   <<BadRaw(s), GoodRaw(s)>>}

\* The order of the scrapers in run_all's vec!.
ScraperOrder == <<"pine_box", "fox_theater">>

\* run_scrape_and_post is invoked: the store is opened and run_all creates
\* one fetch_events future per scraper and awaits join_all.
StartRun ==
  /\ runPc \in {"idle", "done", "failed"}
  /\ calls < MaxCalls
  /\ calls' = calls + 1
  /\ runPc' = "scrape"
  /\ fetch' = [s \in Scrapers |-> [st |-> "pending", items |-> <<>>]]
  /\ raws' = <<>>
  /\ pos' = 0
  /\ runOut' = {}
  /\ UNCHANGED <<clock, listing, events, posts, pc, ev, exists, result,
                 notFound, markedIds, responsive, normVars, composeVars>>
  /\ UNCHANGED <<pendingVars, settingsVars, modelVars, venueVars>>

\* One scraper's fetch_events future completes, with Ok(items) or with an
\* error (network failure, error status, unparsable document).  The future
\* of a venue whose server never answers stays pending: neither reqwest::get
\* nor run_all sets a timeout.
FetchReturn(s) ==
  /\ runPc = "scrape"
  /\ fetch[s].st = "pending"
  /\ s \in responsive
  /\ \/ \E items \in Feeds(s) :
          fetch' = [fetch EXCEPT ![s] = [st |-> "ok", items |-> items]]
     \/ fetch' = [fetch EXCEPT ![s] = [st |-> "err", items |-> <<>>]]
  /\ UNCHANGED <<storeVars, responsive, runPc, raws, pos, runOut, normVars,
                 composeVars>>
  /\ UNCHANGED <<pendingVars, settingsVars, modelVars, venueVars>>

\* all.extend(r?) over the results in the order of the scrapers.
RECURSIVE Collect(_, _)
Collect(f, order) ==
  IF order = <<>> THEN <<>>
  ELSE f[Head(order)].items \o Collect(f, Tail(order))

\* run_all after join_all: `for r in results { all.extend(r?); }` returns
\* the first error among the results, and Ok(all) when there is none.
RunAllResult(f) ==
  IF \E s \in Scrapers : f[s].st = "err"
    THEN [ok |-> FALSE, all |-> <<>>]
    ELSE [ok |-> TRUE, all |-> Collect(f, ScraperOrder)]

\* join_all resolves once every future has completed; run_all returns and
\* run_scrape_and_post applies `?` to its result.
JoinAll ==
  /\ runPc = "scrape"
  /\ \A s \in Scrapers : fetch[s].st \in {"ok", "err"}
  /\ LET res == RunAllResult(fetch)
     IN IF res.ok
          THEN /\ runPc' = "normalize"
               /\ raws' = res.all
               /\ runOut' = {}
          ELSE /\ runPc' = "failed"
               /\ raws' = <<>>
               /\ runOut' = {[ok |-> FALSE, err |-> "run_all", count |-> 0]}
  /\ pos' = 0
  /\ UNCHANGED <<storeVars, fetch, responsive, normVars, composeVars>>
  /\ UNCHANGED <<pendingVars, settingsVars, modelVars, venueVars>>

\* One iteration of `for raw in raws`: normalize_event(raw)? and
\* store.upsert_event(&ev)?.  An Err of normalize_event returns from the
\* command.
NormalizeAndPersist ==
  /\ runPc = "normalize"
  /\ pos < Len(raws)
  /\ LET res == normalize_event(raws[pos + 1], clock)
     IN IF res.ok
          THEN /\ events' = upsert_event(events, res.event)
               /\ pos' = pos + 1
               /\ runPc' = runPc
               /\ runOut' = runOut
          ELSE /\ events' = events
               /\ pos' = pos
               /\ runPc' = "failed"
               /\ runOut' = {[ok |-> FALSE, err |-> "normalize", count |-> 0]}
  /\ UNCHANGED <<clock, listing, posts, pc, ev, exists, result, notFound,
                 markedIds, calls, fetch, responsive, raws, normVars,
                 composeVars>>
  /\ UNCHANGED <<pendingVars, settingsVars, modelVars, venueVars>>

\* Store::pending_posts: the payloads of the unposted rows that pass the
\* start_utc filter.
pending_posts(tbl, now) == {r.payload : r \in {x \in tbl : PendingWhere(x, now)}}

\* Step 3 of run_scrape_and_post, after the loop: FbPoster::from_vault()?,
\* then for every pending event a composed message (the fallback text when
\* compose fails), which is printed when dry_post is set and posted
\* otherwise; an event whose post succeeded is marked posted; count is the
\* number of pending events.
ComposeAndPost(vaultOk, dry_post, postedOk) ==
  /\ runPc = "normalize"
  /\ pos = Len(raws)
  /\ LET pending == pending_posts(events, clock)
         st == MarkBatch([events |-> events, posts |-> posts, failed |-> {},
                          changed |-> {}], postedOk, clock)
     IN /\ postedOk \subseteq {e.id : e \in pending}
        /\ dry_post => postedOk = {}
        /\ IF vaultOk
             THEN /\ events' = st.events
                  /\ posts' = st.posts
                  /\ markedIds' = markedIds \cup st.changed
                  /\ runPc' = "done"
                  /\ runOut' = {[ok |-> TRUE, err |-> "",
                                 count |-> Cardinality(pending)]}
             ELSE /\ postedOk = {}
                  /\ UNCHANGED <<events, posts, markedIds>>
                  /\ runPc' = "failed"
                  /\ runOut' = {[ok |-> FALSE, err |-> "vault", count |-> 0]}
  /\ UNCHANGED <<clock, listing, pc, ev, exists, result, notFound, calls,
                 fetch, responsive, raws, pos, normVars, composeVars>>
  /\ UNCHANGED <<pendingVars, settingsVars, modelVars, venueVars>>

InitRun == Init /\ listing = [i \in Ids |-> StartSeq[i]] /\ storage = {}

NextRun ==
  \/ Tick
  \/ StartRun
  \/ \E s \in Scrapers : FetchReturn(s)
  \/ JoinAll
  \/ NormalizeAndPersist
  \/ \E vaultOk \in BOOLEAN, dry_post \in BOOLEAN :
       \E postedOk \in SUBSET {r.id : r \in events} :
         ComposeAndPost(vaultOk, dry_post, postedOk)

SpecRun == InitRun /\ [][NextRun]_vars

\* The futures of venues that answer are polled to completion and the
\* command runs on once it can; nothing makes a silent venue answer.
FairRun ==
  /\ \A s \in Scrapers : WF_vars(FetchReturn(s))
  /\ WF_vars(JoinAll)
  /\ WF_vars(NormalizeAndPersist)
  /\ WF_vars(\E vaultOk \in BOOLEAN, dry_post \in BOOLEAN :
               \E postedOk \in SUBSET {r.id : r \in events} :
                 ComposeAndPost(vaultOk, dry_post, postedOk))

LiveSpecRun == SpecRun /\ FairRun

\* =============================================================== composer
\* LLM_MAX_CHARS (bytes), scaled down.
MaxChars == 2

\* Characters of the text a model may return, with their UTF-8 widths.
ByteWidth(c) == IF c = "e-acute" THEN 2 ELSE 1

RECURSIVE ByteLen(_)
ByteLen(txt) ==
  IF txt = <<>> THEN 0 ELSE ByteWidth(Head(txt)) + ByteLen(Tail(txt))

\* What the chat/completions call can do: send() fails, the status is an
\* error, the body is no JSON, or the body is JSON whose
\* choices[0].message.content is `content` (<<>> when it is empty or missing:
\* as_str().unwrap_or("")).
LlmOutcomes ==
  {[kind |-> k, content |-> <<>>] :
     k \in {"send_error", "status_error", "json_error"}}
    \cup {[kind |-> "ok", content |-> c] :
            c \in UNION {[1..n -> {"x", "e-acute"}] : n \in 0..(MaxChars + 1)}}

\* text[..max_chars]: the prefix of max_chars bytes; indexing a str inside a
\* multi-byte character panics.
IsCharBoundary(txt, n) ==
  \E k \in 0..Len(txt) : ByteLen(SubSeq(txt, 1, k)) = n

BytePrefix(txt, n) ==
  SubSeq(txt, 1, CHOOSE k \in 0..Len(txt) : ByteLen(SubSeq(txt, 1, k)) = n)

\* LLMComposer::compose(ev) for one outcome of the HTTP call.
compose(e, llm) ==
  IF llm.kind # "ok" THEN [ok |-> FALSE, panic |-> FALSE, text |-> <<>>]
  ELSE IF ByteLen(llm.content) > MaxChars
    THEN IF IsCharBoundary(llm.content, MaxChars)
           THEN [ok |-> TRUE, panic |-> FALSE,
                 text |-> BytePrefix(llm.content, MaxChars)]
           ELSE [ok |-> FALSE, panic |-> TRUE, text |-> <<>>]
    ELSE [ok |-> TRUE, panic |-> FALSE, text |-> llm.content]

\* A date-time text (day, separator, tick, offset) written out in characters.
DateChars(dt) ==
  <<Digits[dt[1] + 1], "T", Digits[dt[3] + 1],
    IF dt[4] < 0 THEN "-" ELSE "+",
    Digits[(IF dt[4] < 0 THEN -dt[4] ELSE dt[4]) + 1]>>

\* llm::fallback(ev): the headliner (or "TBA"), then venue name, local start,
\* ticket link and details link, each when present.
fallback(e) ==
  LET main == IF Len(e.artists) > 0 THEN e.artists[1] ELSE <<"T", "B", "A">>
      v == IF e.venue_name = {} THEN <<>>
           ELSE <<" ", "-", " ", CHOOSE x \in e.venue_name : TRUE>>
      dt == IF e.start_local = {} THEN <<>>
            ELSE <<"\n">> \o DateChars(CHOOSE x \in e.start_local : TRUE)
      t == IF e.ticket_url = {} THEN <<>>
           ELSE <<"\n", "Tickets: ", CHOOSE x \in e.ticket_url : TRUE>>
      u == IF e.event_url = {} THEN <<>>
           ELSE <<"\n", "Details: ", CHOOSE x \in e.event_url : TRUE>>
  IN main \o v \o dt \o t \o u

\* preview_post(event_id) for one outcome of the HTTP call: Err when
\* get_event finds no row; otherwise the composer's text when it returns Ok
\* and the fallback text when it returns Err.  (The method called is named
\* compose_preview; the composer has the one method compose.)
preview_post(tbl, event_id, llm) ==
  IF \A r \in tbl : r.id # event_id
    THEN [ok |-> FALSE, panic |-> FALSE, text |-> <<>>]
    ELSE LET e == (CHOOSE r \in tbl : r.id = event_id).payload
             c == compose(e, llm)
         IN IF c.panic THEN c
            ELSE IF c.ok THEN [ok |-> TRUE, panic |-> FALSE, text |-> c.text]
            ELSE [ok |-> TRUE, panic |-> FALSE, text |-> fallback(e)]

\* The command preview_post is invoked and returns.
PreviewPost(event_id, llm) ==
  /\ draft' = {[event_id |-> event_id, llm |-> llm,
                stored |-> {r.payload : r \in {x \in events : x.id = event_id}},
                res |-> preview_post(events, event_id, llm)]}
  /\ UNCHANGED <<storeVars, runVars, normVars>>
  /\ UNCHANGED <<pendingVars, settingsVars, modelVars, venueVars>>

\* RawEvents of shows to preview: no artist, a headliner, a headliner with a
\* support act, an empty title (unwrap_or_default of the ICS scraper); with
\* and without links.
PreviewRaws ==
  {RawEvent("pine_box", Rfc3339Text(6, 0), "America/Los_Angeles", a, {}, t, {}) :
     a \in {<<>>, <<(<<"A", "b">>)>>, <<(<<"A", "b">>), (<<"b">>)>>,
            <<(<<>>)>>},
     t \in {{}, {"tix"}}}

\* One iteration of the loop of run_scrape_and_post for a scraped show.
StoreRaw(r) ==
  /\ calls < MaxCalls
  /\ calls' = calls + 1
  /\ events' = upsert_event(events, normalize_event(r, clock).event)
  /\ UNCHANGED <<clock, listing, posts, pc, ev, exists, result, notFound,
                 markedIds, pipeVars>>

\* An id no stored event has.
UnknownId == <<"sha256", "nowhere">>

NextPreview ==
  \/ \E r \in PreviewRaws : StoreRaw(r)
  \/ \E id \in {r.id : r \in events} \cup {UnknownId} :
       \E llm \in LlmOutcomes : PreviewPost(id, llm)

SpecPreview == InitStore /\ [][NextPreview]_vars

\* ========================================================== pending posts
\* The Pending Posts view (routes/PendingPosts.tsx) over usePendingBuckets
\* (hooks/useSettings.ts) and the store.  `selected` is the Record of the
\* checkboxes: a function from the ids that have an entry to BOOLEAN.

\* const allIds = useMemo(...): the ids of every event in every bucket.
allIds == ListedIds(data)

\* const ids = useMemo(...): the keys of `selected` whose value is true.
selectedIds == {i \in DOMAIN selected : selected[i]}

\* The Refresh button: disabled={loading || busy}.
RefreshDisabled == loading \/ busy

\* Variant of the Mark Posted button that ignores `busy`.
MarkDisabled_IgnoresBusy == selectedIds = {}

\* The Mark Posted button: disabled={!ids.length || busy}.
MarkDisabled == selectedIds = {} \/ busy

\* usePendingBuckets.refresh up to its await: setLoading(true) and
\* invoke("list_pending_buckets").  The call is entered in the first slot
\* that is free.
StartRefresh(slot) ==
  /\ refreshes[slot].phase = "free"
  /\ \A other \in Slots : refreshes[other].phase = "free" => other <= slot
  /\ loading' = TRUE
  /\ refreshes' = [refreshes EXCEPT ![slot] = [FreeCall EXCEPT
                                                 !.phase = "sent"]]

\* A click on Refresh (the mount effect makes the same call).
RefreshClick(slot) ==
  /\ ~pruneDue
  /\ ~RefreshDisabled
  /\ StartRefresh(slot)
  /\ UNCHANGED <<data, selected, busy, toast, markPc, markIds, markSlot,
                 pruneDue>>
  /\ UNCHANGED <<storeVars, normVars, runVars, composeVars>>
  /\ UNCHANGED <<settingsVars, modelVars, venueVars>>

\* The backend runs list_pending_buckets for a call in flight: it answers
\* with the buckets of the store as it is now.
RefreshBackend(slot) ==
  /\ refreshes[slot].phase = "sent"
  /\ refreshes' =
       [refreshes EXCEPT ![slot] =
          [phase |-> "answered", response |-> Response]]
  /\ UNCHANGED <<data, loading, selected, busy, toast, markPc, markIds,
                 markSlot, pruneDue>>
  /\ UNCHANGED <<storeVars, normVars, runVars, composeVars>>
  /\ UNCHANGED <<settingsVars, modelVars, venueVars>>

\* Variant of the pruning effect that keeps every entry.
Pruned_KeepsAll == selected

\* The pruning effect's updater: the entries of `selected` that are true and
\* whose id is in allIds.
Pruned ==
  [i \in {j \in DOMAIN selected : j \in allIds /\ selected[j]} |-> TRUE]

\* useEffect(() => setSelected(prev => ...), [allIds]).  React runs a
\* scheduled effect before it handles the next event or state update, so
\* the steps of the view below wait for it (~pruneDue).
PruneEffect ==
  /\ pruneDue
  /\ selected' = Pruned
  /\ pruneDue' = FALSE
  /\ UNCHANGED <<data, loading, busy, toast, refreshes, markPc, markIds,
                 markSlot>>
  /\ UNCHANGED <<storeVars, normVars, runVars, composeVars>>
  /\ UNCHANGED <<settingsVars, modelVars, venueVars>>

\* A list_pending_buckets call settles in the view: its answer arrives
\* (ok), or the call is rejected, which can happen at any time.  refresh:
\* setData(normalizeBuckets(response)) on success, setLoading(false) in
\* either case; an error is rethrown.  When the call is the one
\* handleMarkPosted awaits, the handler goes on: the success toast (when
\* settings.notifyOnPost) or none after a refresh that succeeded, its catch
\* block after one that failed, and setBusy(false) in either case.
RefreshResolve(slot, ok, notifyOnPost) ==
  /\ ~pruneDue
  /\ \/ ok /\ refreshes[slot].phase = "answered"
     \/ ~ok /\ refreshes[slot].phase # "free"
  /\ refreshes' = [refreshes EXCEPT ![slot] = FreeCall]
  /\ loading' = FALSE
  /\ IF ok
       THEN /\ data' = NormalizeBuckets(refreshes[slot].response)
            /\ pruneDue' = TRUE
       ELSE UNCHANGED <<data, pruneDue>>
  /\ IF markPc = "refreshing" /\ markSlot = slot
       THEN /\ toast' = IF ~ok THEN "marking_failed"
                        ELSE IF notifyOnPost THEN "marked" ELSE "none"
            /\ busy' = FALSE
            /\ markPc' = "idle"
            /\ markIds' = {}
            /\ markSlot' = 0
       ELSE UNCHANGED <<toast, busy, markPc, markIds, markSlot>>
  /\ UNCHANGED selected
  /\ UNCHANGED <<storeVars, normVars, runVars, composeVars>>
  /\ UNCHANGED <<settingsVars, modelVars, venueVars>>

\* onChange of an event's checkbox: setSelected(prev => ({...prev,
\* [event.id]: checked})).  Only listed events have a checkbox.
Toggle(id, checked) ==
  /\ ~pruneDue
  /\ id \in allIds
  /\ selected' = [i \in DOMAIN selected \cup {id} |->
                    IF i = id THEN checked ELSE selected[i]]
  /\ UNCHANGED <<data, loading, busy, toast, refreshes, markPc, markIds,
                 markSlot, pruneDue>>
  /\ UNCHANGED <<storeVars, normVars, runVars, composeVars>>
  /\ UNCHANGED <<settingsVars, modelVars, venueVars>>

\* handleMarkPosted up to its first await: setBusy(true), setToast(null),
\* invoke("mark_events_posted", {eventIds: ids}).
MarkClick ==
  /\ ~pruneDue
  /\ ~MarkDisabled
  /\ markPc = "idle"
  /\ busy' = TRUE
  /\ toast' = "none"
  /\ markPc' = "invoking"
  /\ markIds' = selectedIds
  /\ UNCHANGED <<data, loading, selected, refreshes, markSlot, pruneDue>>
  /\ UNCHANGED <<storeVars, normVars, runVars, composeVars>>
  /\ UNCHANGED <<settingsVars, modelVars, venueVars>>

\* mark_events_posted succeeds: the batch is applied to the store and the
\* handler goes on to setSelected({}) and refresh().
MarkSucceeds(slot) ==
  /\ ~pruneDue
  /\ markPc = "invoking"
  /\ LET st == MarkBatch([events |-> events, posts |-> posts, failed |-> {},
                          changed |-> {}], markIds, clock)
     IN /\ events' = st.events
        /\ posts' = st.posts
        /\ notFound' = st.failed
        /\ markedIds' = markedIds \cup st.changed
  /\ selected' = <<>>
  /\ StartRefresh(slot)
  /\ markPc' = "refreshing"
  /\ markIds' = {}
  /\ markSlot' = slot
  /\ UNCHANGED <<data, busy, toast, pruneDue>>
  /\ UNCHANGED <<clock, listing, pc, ev, exists, result, calls>>
  /\ UNCHANGED <<normVars, runVars, composeVars, settingsVars, modelVars,
                 venueVars>>

\* mark_events_posted fails: the catch block sets the error toast, the
\* finally block setBusy(false).
MarkFails ==
  /\ ~pruneDue
  /\ markPc = "invoking"
  /\ toast' = "marking_failed"
  /\ busy' = FALSE
  /\ markPc' = "idle"
  /\ markIds' = {}
  /\ UNCHANGED <<data, loading, selected, refreshes, markSlot, pruneDue>>
  /\ UNCHANGED <<storeVars, normVars, runVars, composeVars>>
  /\ UNCHANGED <<settingsVars, modelVars, venueVars>>

\* An ingestion run stores a show of the calendar while the view is open:
\* normalize_event, then upsert_event.
Ingest(id) ==
  /\ events' = IF RowsOf(id) # {} THEN SqlUpdateSeen(events, NormalizeEvent(id))
                ELSE events \cup {NewRow(NormalizeEvent(id))}
  /\ UNCHANGED <<clock, listing, posts, pc, ev, exists, result, notFound,
                 markedIds, calls>>
  /\ UNCHANGED pipeVars

NextPending ==
  \/ \E id \in Ids : Ingest(id)
  \/ \E slot \in Slots : RefreshClick(slot)
  \/ \E slot \in Slots : RefreshBackend(slot)
  \/ \E slot \in Slots, ok \in BOOLEAN, notifyOnPost \in BOOLEAN :
       RefreshResolve(slot, ok, notifyOnPost)
  \/ PruneEffect
  \/ \E id \in Ids, checked \in BOOLEAN : Toggle(id, checked)
  \/ MarkClick
  \/ \E slot \in Slots : MarkSucceeds(slot)
  \/ MarkFails

SpecPending == InitStore /\ [][NextPending]_vars

\* =============================================================== settings
\* useSettings (hooks/useSettings.ts) and the model list of the Settings
\* page (routes/Settings.tsx).

\* readSettings: the defaults when there is no item or it does not parse,
\* else { ...DEFAULT_SETTINGS, ...parsed }, where JSON.parse gives the
\* members by key with booleans read back.
readSettings ==
  IF storage = {} THEN DEFAULT_SETTINGS
  ELSE LET item == CHOOSE x \in storage : TRUE
           members == {item.members[i] : i \in DOMAIN item.members}
           parsed == [k \in {m[1] : m \in members} |->
                        LET v == (CHOOSE m \in members : m[1] = k)[2]
                        IN IF k = "notifyOnPost" THEN v = "true" ELSE v]
       IN IF ~item.wellFormed THEN DEFAULT_SETTINGS
          ELSE [k \in DOMAIN SettingValues |->
                  IF k \in DOMAIN parsed THEN parsed[k]
                  ELSE DEFAULT_SETTINGS[k]]

update(key, value) ==
  /\ settings' = [settings EXCEPT ![key] = value]
  /\ dirty' = TRUE
  /\ UNCHANGED <<loaded, savedAt, storage, warned>>

reset ==
  /\ settings' = DEFAULT_SETTINGS
  /\ dirty' = TRUE
  /\ UNCHANGED <<loaded, savedAt, storage, warned>>

\* Variant of save() that clears dirty although setItem threw.
save_ClearsDirtyOnThrow(ok) ==
  /\ storage' = IF ok THEN {JsonStringify(settings)} ELSE storage
  /\ dirty' = FALSE
  /\ savedAt' = IF ok THEN {clock % TicksPerDay} ELSE savedAt
  /\ warned' = IF ok THEN warned
               ELSE warned \cup {"Failed to persist settings"}
  /\ UNCHANGED <<settings, loaded>>

\* save(): localStorage.setItem either stores the text or throws (the
\* quota is exceeded, storage is denied) and stores nothing.  savedAt is
\* Date.toLocaleTimeString, the time of day.
save(ok) ==
  /\ IF ok
       THEN /\ storage' = {JsonStringify(settings)}
            /\ dirty' = FALSE
            /\ savedAt' = {clock % TicksPerDay}
            /\ UNCHANGED warned
       ELSE /\ warned' = warned \cup {"Failed to persist settings"}
            /\ UNCHANGED <<storage, dirty, savedAt>>
  /\ UNCHANGED <<settings, loaded>>

\* const effectiveLlmEndpoint = useMemo(...): the trimmed endpoint, or the
\* default when that is empty.
effectiveLlmEndpoint(s) ==
  LET trimmed == IF s.llmEndpoint = " " THEN "" ELSE s.llmEndpoint
  IN IF trimmed = "" THEN DEFAULT_LLM_ENDPOINT ELSE trimmed

\* The model effect after a render: when a dependency (effectiveLlmEndpoint,
\* loaded, modelsRefreshKey) has changed, the
\* cleanup of the previous run (active = false, controller.abort(),
\* clearTimeout: a fetch in flight is superseded, a timer is dropped) and
\* the new run (nothing before the settings are loaded, else
\* setTimeout(fetchModels, 250)).
ModelEffect ==
  /\ IF <<effectiveLlmEndpoint(settings'), loaded', modelsRefreshKey'>>
          # <<effectiveLlmEndpoint(settings), loaded, modelsRefreshKey>>
       THEN /\ stale' = IF current.phase = "fetching"
                          THEN stale \cup {current.endpoint} ELSE stale
            /\ current' =
                 IF loaded'
                   THEN [phase |-> "timer",
                         endpoint |-> effectiveLlmEndpoint(settings')]
                   ELSE [current EXCEPT !.phase = "none"]
       ELSE UNCHANGED <<current, stale>>
  /\ UNCHANGED <<mounted, modelOptions, modelsBusy, modelsError>>

\* The mount effect of useSettings.
SettingsMount ==
  /\ mounted
  /\ ~loaded
  /\ settings' = readSettings
  /\ loaded' = TRUE
  /\ warned' = warned \cup {"Failed to load settings" :
                              x \in {y \in storage : ~y.wellFormed}}
  /\ UNCHANGED <<dirty, savedAt, storage>>
  /\ UNCHANGED modelsRefreshKey
  /\ ModelEffect
  /\ UNCHANGED <<storeVars, normVars, runVars, composeVars>>
  /\ UNCHANGED <<pendingVars, venueVars>>

\* const modelSelectOptions = useMemo(...): the model options, preceded by
\* the model of the settings when it is not one of them.
modelSelectOptions ==
  IF settings.llmModel # ""
     /\ \A i \in DOMAIN modelOptions : modelOptions[i] # settings.llmModel
    THEN <<settings.llmModel>> \o modelOptions
    ELSE modelOptions

\* An input of the page changes.  The inputs are disabled until loaded; the
\* model is a select over modelSelectOptions, disabled while modelsBusy.
SettingsUpdate(key, value) ==
  /\ mounted /\ loaded
  /\ key = "llmModel" =>
        /\ ~modelsBusy
        /\ \E i \in DOMAIN modelSelectOptions : modelSelectOptions[i] = value
  /\ update(key, value)
  /\ UNCHANGED modelsRefreshKey
  /\ ModelEffect
  /\ UNCHANGED <<storeVars, normVars, runVars, composeVars>>
  /\ UNCHANGED <<pendingVars, venueVars>>

SettingsReset ==
  /\ mounted /\ loaded
  /\ reset
  /\ UNCHANGED modelsRefreshKey
  /\ ModelEffect
  /\ UNCHANGED <<storeVars, normVars, runVars, composeVars>>
  /\ UNCHANGED <<pendingVars, venueVars>>

\* Save Changes: disabled={isDisabled || !dirty}.
SettingsSave(ok) ==
  /\ mounted /\ loaded /\ dirty
  /\ save(ok)
  /\ UNCHANGED modelsRefreshKey
  /\ ModelEffect
  /\ UNCHANGED <<storeVars, normVars, runVars, composeVars>>
  /\ UNCHANGED <<pendingVars, venueVars>>

\* handleReloadModels, behind a button with
\* disabled={modelsBusy || isDisabled}.
ReloadModels ==
  /\ mounted /\ loaded /\ ~modelsBusy
  /\ modelsRefreshKey < MaxCalls
  /\ modelsRefreshKey' = modelsRefreshKey + 1
  /\ UNCHANGED settingsVars
  /\ ModelEffect
  /\ UNCHANGED <<storeVars, normVars, runVars, composeVars>>
  /\ UNCHANGED <<pendingVars, venueVars>>

\* The timer fires: fetchModels up to its await.
TimerFires ==
  /\ current.phase = "timer"
  /\ modelsBusy' = TRUE
  /\ modelsError' = "none"
  /\ current' = [current EXCEPT !.phase = "fetching"]
  /\ UNCHANGED <<mounted, modelOptions, modelsRefreshKey, stale>>
  /\ UNCHANGED settingsVars
  /\ UNCHANGED <<storeVars, normVars, runVars, composeVars>>
  /\ UNCHANGED <<pendingVars, venueVars>>

\* The model a server offers.
Served(endpoint) ==
  IF endpoint = DEFAULT_LLM_ENDPOINT THEN "gpt-4o-mini" ELSE "llama"

\* Array.from(new Set(values.filter(nonblank))).
RECURSIVE Unique(_)
Unique(values) ==
  IF values = <<>> THEN <<>>
  ELSE LET init == Unique(SubSeq(values, 1, Len(values) - 1))
           last == values[Len(values)]
       IN IF last = "" \/ \E i \in DOMAIN init : init[i] = last THEN init
          ELSE Append(init, last)

\* How a fetch ends: with a payload, with an error (the request fails or
\* the status is not ok), or aborted.
Outcomes(endpoint) ==
  {[kind |-> "payload", values |-> v] :
     v \in {<<Served(endpoint)>>,
            <<Served(endpoint), "", Served(endpoint)>>, <<>>}} \cup
  {[kind |-> "error", values |-> <<>>], [kind |-> "aborted", values |-> <<>>]}

\* Variant of the closure variable that is never cleared.
active_NeverCleared(isCurrent) == TRUE

\* The closure variable `active` of a run of the effect: true until the
\* run's cleanup.
active(isCurrent) == isCurrent

\* fetchModels after its await, for the fetch of the latest run of the
\* effect (isCurrent) or for a superseded one.
Settle(isCurrent, o) ==
  /\ IF o.kind = "payload"
       THEN IF active(isCurrent)
              THEN /\ modelOptions' = Unique(o.values)
                   /\ modelsError' =
                        IF Unique(o.values) = <<>>
                          THEN "No models returned by the API."
                          ELSE modelsError
              ELSE UNCHANGED <<modelOptions, modelsError>>
       ELSE IF ~active(isCurrent) \/ o.kind = "aborted"
              THEN UNCHANGED <<modelOptions, modelsError>>
              ELSE /\ modelOptions' = <<>>
                   /\ modelsError' = "Unable to load models"
  /\ modelsBusy' = IF active(isCurrent) THEN FALSE ELSE modelsBusy

\* The fetch of the latest run settles; it is aborted only by its cleanup.
FetchSettles(o) ==
  /\ current.phase = "fetching"
  /\ o.kind # "aborted"
  /\ Settle(TRUE, o)
  /\ current' = [current EXCEPT !.phase = "settled"]
  /\ UNCHANGED <<mounted, modelsRefreshKey, stale>>
  /\ UNCHANGED settingsVars
  /\ UNCHANGED <<storeVars, normVars, runVars, composeVars>>
  /\ UNCHANGED <<pendingVars, venueVars>>

\* A superseded fetch settles: aborted, or with an answer that had already
\* arrived.
StaleSettles(endpoint, o) ==
  /\ endpoint \in stale
  /\ stale' = stale \ {endpoint}
  /\ Settle(FALSE, o)
  /\ UNCHANGED <<mounted, modelsRefreshKey, current>>
  /\ UNCHANGED settingsVars
  /\ UNCHANGED <<storeVars, normVars, runVars, composeVars>>
  /\ UNCHANGED <<pendingVars, venueVars>>

\* The page is left: the cleanup of the latest run.
Unmount ==
  /\ mounted
  /\ mounted' = FALSE
  /\ stale' = IF current.phase = "fetching"
                THEN stale \cup {current.endpoint} ELSE stale
  /\ current' = [current EXCEPT !.phase = "none"]
  /\ UNCHANGED <<modelOptions, modelsBusy, modelsError, modelsRefreshKey>>
  /\ UNCHANGED settingsVars
  /\ UNCHANGED <<storeVars, normVars, runVars, composeVars>>
  /\ UNCHANGED <<pendingVars, venueVars>>

InitSettings ==
  Init /\ listing = [i \in Ids |-> StartSeq[i]] /\ responsive = Scrapers

\* The settings form: every input, Reset and Save, as time passes and the
\* model list is fetched.
NextSettings ==
  \/ Tick
  \/ SettingsMount
  \/ \E key \in DOMAIN SettingValues : \E value \in SettingValues[key] :
       SettingsUpdate(key, value)
  \/ SettingsReset
  \/ \E ok \in BOOLEAN : SettingsSave(ok)
  \/ TimerFires
  \/ \E o \in Outcomes(current.endpoint) : FetchSettles(o)

SpecSettings == InitSettings /\ [][NextSettings]_vars

\* The model list: the endpoint is edited, Reset and Reload are clicked and
\* the page is left while fetches are in flight.
NextModels ==
  \/ SettingsMount
  \/ \E value \in SettingValues.llmEndpoint :
       SettingsUpdate("llmEndpoint", value)
  \/ SettingsReset
  \/ ReloadModels
  \/ TimerFires
  \/ \E o \in Outcomes(current.endpoint) : FetchSettles(o)
  \/ \E e \in stale : \E o \in Outcomes(e) : StaleSettles(e, o)
  \/ Unmount

SpecModels == InitSettings /\ [][NextModels]_vars

\* ================================================================= venues
\* The Venues page: the buttons Refresh, Scrape All and, per venue, Run
\* Scrape, and the commands they await.  The venues configured are those of
\* the two scrapers.

\* const state = states[venue.id] || { running: false }.
StateOf(v) ==
  IF v \in DOMAIN states THEN states[v]
  ELSE [running |-> FALSE, error |-> "none"]

\* VenueCard: busy = state.running || disabled, with
\* disabled={bulkBusy || loading}; the Run Scrape button has disabled={busy}.
RunScrapeDisabled(v) == StateOf(v).running \/ bulkBusy \/ venuesLoading

\* loadVenues up to its await (the mount effect, or a click on Refresh,
\* which has disabled={loading || bulkBusy}).
LoadVenues ==
  /\ ~(venuesLoading \/ bulkBusy)
  /\ ~loadPending
  /\ venuesLoading' = TRUE
  /\ loadPending' = TRUE
  /\ UNCHANGED <<venues, bulkBusy, states, venuesToast, scrapeCalls,
                 bulkPending>>
  /\ UNCHANGED <<storeVars, normVars, runVars, composeVars>>
  /\ UNCHANGED <<pendingVars, settingsVars, modelVars>>

\* list_venues answers: setVenues and initVenueState, or the error toast;
\* setLoading(false) in either case.
LoadVenuesSettles(ok, items) ==
  /\ loadPending
  /\ loadPending' = FALSE
  /\ venuesLoading' = FALSE
  /\ IF ok
       THEN /\ venues' = items
            /\ states' = [v \in DOMAIN states \cup items |-> StateOf(v)]
            /\ UNCHANGED venuesToast
       ELSE /\ venuesToast' = "error"
            /\ UNCHANGED <<venues, states>>
  /\ UNCHANGED <<bulkBusy, scrapeCalls, bulkPending>>
  /\ UNCHANGED <<storeVars, normVars, runVars, composeVars>>
  /\ UNCHANGED <<pendingVars, settingsVars, modelVars>>

\* handleScrape up to its await.
HandleScrape(v) ==
  /\ v \in venues
  /\ ~RunScrapeDisabled(v)
  /\ states' = [w \in DOMAIN states \cup {v} |->
                  IF w = v THEN [running |-> TRUE, error |-> "none"]
                  ELSE states[w]]
  /\ venuesToast' = "none"
  /\ scrapeCalls' = scrapeCalls \cup {v}
  /\ UNCHANGED <<venues, venuesLoading, bulkBusy, loadPending, bulkPending>>
  /\ UNCHANGED <<storeVars, normVars, runVars, composeVars>>
  /\ UNCHANGED <<pendingVars, settingsVars, modelVars>>

\* scrape_venue answers: running false for that venue, and the toast.
ScrapeSettles(v, ok) ==
  /\ v \in scrapeCalls
  /\ scrapeCalls' = scrapeCalls \ {v}
  /\ states' = [w \in DOMAIN states \cup {v} |->
                  IF w = v
                    THEN [running |-> FALSE,
                          error |-> IF ok THEN "none" ELSE "Scrape failed"]
                    ELSE states[w]]
  /\ venuesToast' = IF ok THEN "success" ELSE "error"
  /\ UNCHANGED <<venues, venuesLoading, bulkBusy, loadPending, bulkPending>>
  /\ UNCHANGED <<storeVars, normVars, runVars, composeVars>>
  /\ UNCHANGED <<pendingVars, settingsVars, modelVars>>

\* handleScrapeAll up to its await: every entry of states gets running
\* true.  The Scrape All button has disabled={bulkBusy || loading}.
HandleScrapeAll ==
  /\ ~(bulkBusy \/ venuesLoading)
  /\ ~bulkPending
  /\ bulkBusy' = TRUE
  /\ venuesToast' = "none"
  /\ states' = [v \in DOMAIN states |-> [running |-> TRUE, error |-> "none"]]
  /\ bulkPending' = TRUE
  /\ UNCHANGED <<venues, venuesLoading, loadPending, scrapeCalls>>
  /\ UNCHANGED <<storeVars, normVars, runVars, composeVars>>
  /\ UNCHANGED <<pendingVars, settingsVars, modelVars>>

\* scrape_all answers: every entry of states gets running false (and, on
\* success, no error), then the toast and setBulkBusy(false).
ScrapeAllSettles(ok) ==
  /\ bulkPending
  /\ bulkPending' = FALSE
  /\ states' = [v \in DOMAIN states |->
                  [running |-> FALSE,
                   error |-> IF ok THEN "none" ELSE states[v].error]]
  /\ venuesToast' = IF ok THEN "success" ELSE "error"
  /\ bulkBusy' = FALSE
  /\ UNCHANGED <<venues, venuesLoading, loadPending, scrapeCalls>>
  /\ UNCHANGED <<storeVars, normVars, runVars, composeVars>>
  /\ UNCHANGED <<pendingVars, settingsVars, modelVars>>

NextVenues ==
  \/ LoadVenues
  \/ \E ok \in BOOLEAN : \E items \in SUBSET Scrapers :
       LoadVenuesSettles(ok, items)
  \/ \E v \in Scrapers : HandleScrape(v)
  \/ \E v \in Scrapers : \E ok \in BOOLEAN : ScrapeSettles(v, ok)
  \/ HandleScrapeAll
  \/ \E ok \in BOOLEAN : ScrapeAllSettles(ok)

SpecVenues == InitStore /\ [][NextVenues]_vars

\* ================================================================= claims
\* The instant (in ticks) a timestamp text of either format denotes.
Instant(s) == s[1] * TicksPerDay + s[3]

\* The UTC calendar day of a timestamp text.
DayOf(s) == s[1]

\* A connection is performing the UPDATE branch of upsert_event.
UpdateStep(c) == pc[c] = "write" /\ exists[c] /\ pc'[c] = "idle"

\* C1: an upsert of an Event whose id already has a record leaves exactly one
\* record with that id, first_seen_utc unchanged, the payload equal to the
\* Event and last_seen_utc not moved backward.
C1_UpsertExistingRefreshes ==
  [][\A c \in Conns :
       UpdateStep(c) =>
         /\ Cardinality({r \in events' : r.id = ev[c].id}) = 1
         /\ \A r \in RowsOf(ev[c].id) :
              \A r2 \in {x \in events' : x.id = r.id} :
                /\ r2.first_seen_utc = r.first_seen_utc
                /\ r2.payload = ev[c]
                /\ Instant(r2.last_seen_utc) >= Instant(r.last_seen_utc)]_vars

\* C2: once a record's posted_at_utc is set, no step (upsert, mark posted,
\* or the read-only queries, which change nothing) makes it absent again.
C2_PostedNeverCleared ==
  [][\A r \in events :
       r.posted_at_utc # {} =>
         /\ \E r2 \in events' : r2.id = r.id
         /\ \A r2 \in events' : r2.id = r.id => r2.posted_at_utc # {}]_vars

\* A posted record that an upsert has refreshed after it was marked: its
\* last_seen_utc is later than its posted_at_utc.
C2_Witness ==
  \E r \in events :
    \E t \in r.posted_at_utc : Instant(r.last_seen_utc) > Instant(t)

\* C3: concurrent upserts of one id behave like a serial execution: no call
\* fails and there is one record per id.
C3_ConcurrentUpsertsSerialize ==
  /\ \A c \in Conns : result[c] # "err"
  /\ \A r1 \in events, r2 \in events : r1.id = r2.id => r1 = r2

\* C4: the response lists exactly the stored events that are unposted and
\* start at or after now.
C4_PendingExactlyUnpostedFuture ==
  ListedIds(Response) =
    {r.id : r \in {x \in events :
                     /\ x.posted_at_utc = {}
                     /\ Instant(x.payload.start_utc) >= clock}}

\* An unposted stored event whose start is in the past.
StalePending(r) ==
  r.posted_at_utc = {} /\ Instant(r.payload.start_utc) < clock

\* C5 (as stated): every unposted event with a past start is still listed.
C5_StalePendingStaysVisible ==
  \A r \in events : StalePending(r) => r.id \in ListedIds(Response)

\* C5 (amended): an unposted event whose start lies on a UTC date before
\* the current one is not listed any more, although its record is still
\* stored and unposted.
C5_StaleDroppedAfterItsDay ==
  \A r \in events :
    (r.posted_at_utc = {}
       /\ DayOf(r.payload.start_utc) < DayOf(SqlDatetime(clock)))
      => r.id \notin ListedIds(Response)

\* A stored, unposted event whose start date has passed.
C5_Witness ==
  \E r \in events :
    /\ r.posted_at_utc = {}
    /\ DayOf(r.payload.start_utc) < DayOf(SqlDatetime(clock))

\* The bucket the partition table assigns to a days_until value.
TableBucket(d) ==
  IF d = 0 THEN "DAY_OF"
  ELSE IF d \in 1..6 THEN "LT_1W"
  ELSE IF d \in 7..13 THEN "LT_2W"
  ELSE IF d \in 14..29 THEN "LT_1M"
  ELSE IF d \in 30..59 THEN "LT_2M"
  ELSE IF d >= 60 THEN "GTE_2M"
  ELSE "NONE"

\* C6: every entry is in the bucket the table assigns to its days_until,
\* and in no other; the buckets together hold exactly the selected rows.
C6_BucketByDaysUntil ==
  /\ \A k \in DOMAIN Response : \A i \in DOMAIN Response[k] :
       TableBucket(Response[k][i].days_until) = k
  /\ \A k1 \in DOMAIN Response, k2 \in DOMAIN Response :
       \A i \in DOMAIN Response[k1], j \in DOMAIN Response[k2] :
         Response[k1][i].event.id = Response[k2][j].event.id =>
           k1 = k2 /\ i = j
  /\ ListedIds(Response) = {r.id : r \in {x \in events : PendingWhere(x, clock)}}

\* C7: within every bucket the entries are in ascending start_utc order.
C7_BucketsAscending ==
  \A k \in DOMAIN Response : \A i \in 1..(Len(Response[k]) - 1) :
    Instant(Response[k][i].event.start_utc)
      <= Instant(Response[k][i + 1].event.start_utc)

\* A bucket holding two entries with different start instants.
C7_Witness ==
  \E k \in DOMAIN Response :
    /\ Len(Response[k]) >= 2
    /\ Response[k][1].event.start_utc # Response[k][2].event.start_utc

\* C8: the mapping list_pending_buckets returns has all six bucket keys.
C8_AllBucketKeysPresent == DOMAIN Response = BucketKeySet

\* C9: a mark-posted batch sets posted_at_utc on every stored id, reports
\* every unknown id as not found and creates no record for an unknown id.
C9_BatchMarksKnownReportsUnknown ==
  [][\A ids \in SUBSET Ids \ {{}} :
       MarkEventsPosted(ids) =>
         \A id \in ids :
           IF RowsOf(id) # {}
             THEN \A r \in events' : r.id = id => r.posted_at_utc # {}
             ELSE /\ id \in notFound'
                  /\ \A r \in events' : r.id # id
                  /\ \A p \in posts' : p.event_id # id]_vars

\* C10: an id that a mark-posted call has marked is in no later response,
\* whatever upserts of it follow.
C10_MarkedNeverPendingAgain ==
  \A id \in markedIds : id \notin ListedIds(Response)

\* A marked event that was upserted again after the marking and whose start
\* still passes the date filter of the query.
C10_Witness ==
  \E r \in events :
    /\ r.id \in markedIds
    /\ \E t \in r.posted_at_utc : Instant(r.last_seen_utc) > Instant(t)
    /\ TextGE(r.payload.start_utc, SqlDatetime(clock))

\* Leading and trailing white space removed.
RECURSIVE Trim(_)
Trim(txt) ==
  IF txt = <<>> THEN txt
  ELSE IF Head(txt) = " " THEN Trim(Tail(txt))
  ELSE IF txt[Len(txt)] = " " THEN Trim(SubSeq(txt, 1, Len(txt) - 1))
  ELSE txt

\* The main artist of the identity key as the contract defines it: the
\* first artist name case-folded and trimmed, the sentinel for an empty list.
NormalizedMainArtist(artists) ==
  IF Len(artists) = 0 THEN <<"sentinel">> ELSE Trim(to_lowercase(artists[1]))

\* Two calls, both Ok, for the same venue and the same resolved start.
SameVenueAndStart(p, r, o) ==
  /\ p.out.ok /\ o.ok
  /\ p.raw.venue_id = r.venue_id
  /\ Instant(p.out.event.start_utc) = Instant(o.event.start_utc)

\* C11: two RawEvents that agree on venue_id, resolved start_utc and the
\* normalized main artist get the same id, whatever their other fields are;
\* and the same RawEvent normalized twice gets the same id.
C11_IdDependsOnlyOnKey ==
  \A p \in prev, r \in raw, o \in out :
    /\ (SameVenueAndStart(p, r, o)
          /\ NormalizedMainArtist(p.raw.artists)
               = NormalizedMainArtist(r.artists))
         => p.out.event.id = o.event.id
    /\ (p.raw = r /\ p.out.ok /\ o.ok) => p.out.event.id = o.event.id

\* C12: two RawEvents of one venue and start whose first artist names differ
\* only in letter case or in leading/trailing white space get the same id.
C12_MainArtistFoldedAndTrimmed ==
  \A p \in prev, r \in raw, o \in out :
    (SameVenueAndStart(p, r, o)
       /\ Len(p.raw.artists) > 0 /\ Len(r.artists) > 0
       /\ Trim(to_lowercase(p.raw.artists[1]))
            = Trim(to_lowercase(r.artists[1])))
      => p.out.event.id = o.event.id

\* C13: every Event normalize_event produces has at least one artist.
C13_ArtistsNeverEmpty ==
  \A o \in out : o.ok => Len(o.event.artists) > 0

C15_AmbiguousOrMissingLocalFails ==
  \A r \in raw, o \in out :
    (r.start.form = "naive"
       /\ Cardinality(FromLocalDatetime(TzFromStrOrDefault(r.timezone),
                                        r.start.local)) # 1)
      => ~o.ok

\* The numeric tokens of a text: the positions where a maximal run of digits
\* starts, and the length of the run.
TokenStarts(txt) ==
  {i \in DOMAIN txt : IsDigit(txt[i]) /\ ~IsDigit(CharAt(txt, i - 1))}

TokenLen(txt, i) ==
  CHOOSE n \in 1..Len(txt) :
    /\ \A j \in i..(i + n - 1) : IsDigit(CharAt(txt, j))
    /\ ~IsDigit(CharAt(txt, i + n))

TokenVal(txt, i) == ParseInt(txt, i, TokenLen(txt, i))

\* The text between two tokens is a hyphen, slash or en-dash, with optional
\* white space around it and an optional currency symbol after it.
IsSeparator(b) ==
  \E k \in DOMAIN b :
    /\ b[k] \in Separators
    /\ \A m \in 1..(k - 1) : b[m] = " "
    /\ \A m \in (k + 1)..Len(b) : b[m] = " " \/ (m = Len(b) /\ b[m] = "$")

\* C16: absent text or text without a digit gives (absent, absent); a single
\* numeric token a gives min = max = a*100; two numeric tokens a and b with
\* a separator between them give (a*100, b*100).
C16_PriceInMinorUnits ==
  \A r \in raw, o \in out :
    LET lo == o.event.price_min_cents
        hi == o.event.price_max_cents
    IN IF r.price_text = {} THEN lo = {} /\ hi = {}
       ELSE LET txt == CHOOSE t \in r.price_text : TRUE
                ts == TokenStarts(txt)
            IN /\ ts = {} => lo = {} /\ hi = {}
               /\ \A i \in ts :
                    ts = {i} =>
                      lo = {TokenVal(txt, i) * 100} /\ hi = lo
               /\ \A i \in ts, j \in ts :
                    (ts = {i, j} /\ i < j
                       /\ IsSeparator(SubSeq(txt, i + TokenLen(txt, i), j - 1)))
                      => /\ lo = {TokenVal(txt, i) * 100}
                         /\ hi = {TokenVal(txt, j) * 100}

\* The ingestion run has ended.
RunEnded == runPc \in {"done", "failed"}

\* C17: in a run whose scrape stage delivered the raw events, a record that
\* fails to normalize does not abort the run, and every record that does
\* normalize, before or after it, is stored when the run has ended.
C17_NormalizeFailureDropsOneRecord ==
  (RunEnded /\ \A o \in runOut : o.err # "run_all") =>
    /\ \A o \in runOut : o.err # "normalize"
    /\ \A i \in DOMAIN raws :
         LET res == normalize_event(raws[i], clock)
         IN res.ok => \E r \in events : r.id = res.event.id

\* C18: once run_all has returned, the raw events of every scraper whose
\* fetch succeeded are among the raw events passed on.
C18_AdapterFailureIsolated ==
  runPc \in {"normalize", "done", "failed"} =>
    \A s \in Scrapers :
      fetch[s].st = "ok" =>
        \A i \in DOMAIN fetch[s].items :
          \E j \in DOMAIN raws : raws[j] = fetch[s].items[i]

\* C19: a run that has started eventually ends, also when one venue never
\* answers.
C19_RunEndsDespiteSilentAdapter == (runPc = "scrape") ~> RunEnded

\* The external call failed: a network error, a non-success response, a body
\* that cannot be read, or an empty output.
ExternalCallFailed(llm) == llm.kind # "ok" \/ llm.content = <<>>

\* A text contains a name as a run of consecutive characters.
Contains(txt, name) ==
  \E k \in 0..(Len(txt) - Len(name)) :
    \A i \in DOMAIN name : txt[k + i] = name[i]

\* C20: for a stored event preview_post returns Ok with non-empty text for
\* every outcome of the external call; when the call failed the text is the
\* fallback template, which contains the headliner's name.
C20_PreviewNeverEmpty ==
  \A d \in draft : \A e \in d.stored :
    /\ d.res.ok /\ Len(d.res.text) > 0
    /\ ExternalCallFailed(d.llm) =>
         /\ d.res.text = fallback(e)
         /\ Len(e.artists) > 0 => Contains(d.res.text, e.artists[1])

\* A connection is performing the INSERT branch of upsert_event, and the
\* INSERT succeeds.
InsertStep(c) ==
  /\ pc[c] = "write" /\ ~exists[c] /\ RowsOf(ev[c].id) = {}
  /\ pc'[c] = "idle"

\* C21: an upsert of an Event whose id has no record leaves exactly one
\* record with that id, with first_seen_utc = last_seen_utc = the time of
\* the call and posted_at_utc absent.
C21_InsertStampsNow ==
  [][\A c \in Conns :
       InsertStep(c) =>
         /\ Cardinality({r \in events' : r.id = ev[c].id}) = 1
         /\ \A r \in {x \in events' : x.id = ev[c].id} :
              /\ r.first_seen_utc = r.last_seen_utc
              /\ Instant(r.first_seen_utc) = clock
              /\ r.posted_at_utc = {}]_vars

\* C22: the number a completed run returns is the number of upserts the run
\* performed (one per iteration of the loop that was completed: pos).
C22_CountIsUpserts ==
  runPc = "done" => \A o \in runOut : o.ok /\ o.count = pos

\* C26: every stored record has first_seen_utc <= last_seen_utc.
C26_FirstSeenNotAfterLastSeen ==
  \A r \in events : Instant(r.first_seen_utc) <= Instant(r.last_seen_utc)

\* The pruning effect runs.
PruneStep == pruneDue /\ ~pruneDue'

\* C23: the selection persists across refreshes until posted: when the
\* pruning effect runs after a refresh, an id is selected afterwards if and
\* only if it was selected before and is listed in the refreshed buckets;
\* and whenever no pruning is due, the selection is a subset of the listed
\* ids.
C23_SelectionFollowsRefresh ==
  /\ [](~pruneDue => selectedIds \subseteq allIds)
  /\ [][PruneStep =>
          \A i \in Ids :
            i \in selectedIds' <=> (i \in selectedIds /\ i \in allIds)]_vars

\* A refresh has replaced the buckets while two ids were selected: one is
\* still listed, the other is not, and the pruning effect is due.
C23_Witness ==
  /\ pruneDue
  /\ \E i \in selectedIds : i \in allIds
  /\ \E i \in selectedIds : i \notin allIds

\* C24: when mark_events_posted fails the selection is unchanged and the
\* error toast is shown; handleMarkPosted always ends with busy false; and
\* while busy is true the Mark Posted and Refresh buttons are disabled.
C24_FailedMarkKeepsSelection ==
  /\ [](busy => MarkDisabled /\ RefreshDisabled)
  /\ [][(markPc = "invoking" /\ markPc' = "idle") =>
          selected' = selected /\ toast' = "marking_failed"]_vars
  /\ [][(markPc # "idle" /\ markPc' = "idle") => ~busy']_vars

\* A mark_events_posted call has failed (none has ever succeeded): the
\* error toast is up, the selection is still there and busy is false.
C24_Witness ==
  /\ markPc = "idle" /\ ~busy
  /\ toast = "marking_failed"
  /\ markedIds = {}
  /\ selectedIds # {}

\* C28: once a marking and the refresh it started have succeeded (the
\* success toast is up) and no list_pending_buckets call is in flight, no
\* marked id is listed.
C28_MarkedIdsLeaveTheList ==
  (/\ markPc = "idle"
   /\ toast = "marked"
   /\ \A s \in Slots : refreshes[s].phase = "free")
    => allIds \cap markedIds = {}

\* C30: when mark_events_posted has succeeded, handleMarkPosted does not end
\* with the marking-failure toast, whatever the refresh does.
C30_FailureToastOnlyForFailedMark ==
  [][(markPc = "refreshing" /\ markPc' = "idle") =>
       toast' # "marking_failed"]_vars

\* C25: the stored item changes only through a successful save(), which
\* writes the in-memory settings, clears dirty and sets savedAt; update()
\* and reset() change the in-memory settings only and set dirty (reset
\* restores the defaults); a save() whose write throws leaves dirty and
\* savedAt (and the item) as they were.
C25_StorageChangesOnlyThroughSave ==
  [][/\ (storage' # storage \/ (dirty /\ ~dirty')) =>
          /\ storage' = {JsonStringify(settings)}
          /\ ~dirty'
          /\ savedAt' = {clock % TicksPerDay}
          /\ settings' = settings
     /\ (loaded /\ settings' # settings) =>
          dirty' /\ UNCHANGED <<storage, savedAt>>
     /\ SettingsReset => settings' = DEFAULT_SETTINGS /\ dirty'
     /\ "Failed to persist settings" \in warned' \ warned =>
          UNCHANGED <<storage, dirty, savedAt, settings>>]_vars

\* Settings were saved, then edited (they differ from the stored item and
\* dirty is set), and a later save() has failed.
C25_Witness ==
  /\ storage # {} /\ storage # {JsonStringify(settings)}
  /\ dirty
  /\ savedAt # {}
  /\ "Failed to persist settings" \in warned

\* C29: a superseded model fetch changes neither modelOptions nor
\* modelsError when it settles; and once the fetch of the latest run of the
\* effect has settled, modelsBusy is false and the options and the error
\* on display are that fetch's: models of the endpoint now in effect, with
\* an error exactly when there are none.
C29_SupersededFetchIsIgnored ==
  /\ [](current.phase = "settled" =>
          /\ ~modelsBusy
          /\ current.endpoint = effectiveLlmEndpoint(settings)
          /\ \A i \in DOMAIN modelOptions :
               modelOptions[i] = Served(current.endpoint)
          /\ modelOptions = <<>> <=> modelsError # "none")
  /\ [][(stale' # stale /\ stale' \subseteq stale) =>
          UNCHANGED <<modelOptions, modelsError>>]_vars

\* The fetch of the latest run has settled with models on offer while a
\* superseded fetch to another endpoint is still in flight.
C29_Witness ==
  /\ current.phase = "settled"
  /\ modelOptions # <<>>
  /\ \E e \in stale : e # current.endpoint

\* C27: while a scrape covering a listed venue is in flight (its own
\* scrape_venue call or a scrape_all call), the venue's Run Scrape button is
\* disabled.
C27_RunScrapeDisabledWhileInFlight ==
  \A v \in venues :
    (v \in scrapeCalls \/ bulkPending) => RunScrapeDisabled(v)

====
